---------------------------- MODULE Spec2Model ----------------------------
(***************************************************************************)
(* A model of the selection-bias stippling pipeline:                       *)
(*   step1_prepare_image.prepare_image        (resize arithmetic)          *)
(*   step2_create_stipple.create_stipple      (importance + placement)     *)
(*   step3_create_tonal.create_tonal          (grid statistics)            *)
(*   step4_create_block_letter.create_block_letter_s (font fitting loop)   *)
(*   step5_create_masked.create_masked_stipple (selective masking)         *)
(*                                                                         *)
(* Numbers.  Tones are floating-point numbers in the program.  They are    *)
(* modelled in fixed point: the integer v stands for the tone v / One.     *)
(* A float64 carries every such integer; a float32 carries only the even   *)
(* ones, so that a conversion to float32 rounds, as it does in NumPy.      *)
(***************************************************************************)
EXTENDS Integers, Sequences, FiniteSets, TLC

VARIABLES
    \* ---- step5_create_masked ----
    stipple_img,   \* the caller's pattern array
    mask_img,      \* the caller's mask array
    threshold,     \* the caller's threshold (a Python float)
    masked,        \* the grid returned by the first call (NoArray: none)
    remasked,      \* the grid returned by a second call on `masked`
    raised,        \* the message of the ValueError raised, "" when none
    pc5,           \* "ready" | "returned" | "raised" | "again" | "off"
    \* ---- step3_create_tonal ----
    gray_img,      \* the image analysed
    grid_rows,
    grid_cols,
    return_full_image,
    tonal_img,     \* first returned value
    average_tones, \* second returned value: <<i, j>> -> average
    stats,         \* third returned value
    pc3,           \* "ready" | "done" | "off"
    \* ---- step1_prepare_image ----
    source_shape,  \* <<height, width>> of the image file opened
    max_size,
    target_size,   \* <<width, height>>, or None
    img_resized,   \* the shape of the returned array, or None
    raised1,       \* the error raised, "" when none
    pc1,           \* "ready" | "returned" | "raised" | "off"
    \* ---- step4_create_block_letter ----
    height,
    width,
    letter,
    font_size_ratio, \* in tenths
    font_size,
    max_width,
    max_height,
    text_w,        \* bbox[2] - bbox[0] of the last measurement
    text_h,        \* bbox[3] - bbox[1] of the last measurement
    glyph_box,     \* where the glyph was drawn: left, top, right, bottom
    raised4,       \* the message of the ValueError raised, "" when none
    pc4,           \* "ready" | "loop" | "drawn" | "raised" | "off"
    \* ---- step2_create_stipple ----
    image,         \* the gray_img handed to create_stipple
    percentage,    \* in hundredths
    sigma,
    content_bias,
    noise_scale_factor,
    extreme_downweight,
    num_points,    \* the number of points the placer is to place
    energy,        \* the placer's energy field, one value per pixel
    stipple_pattern,
    samples,       \* the points placed, in order: <<y, x, intensity>>
    raised2,       \* the error raised, "" when none
    pc2            \* "ready" | "placing" | "returned" | "raised" | "off"

vars5 == <<stipple_img, mask_img, threshold, masked, remasked, raised, pc5>>
vars3 == <<gray_img, grid_rows, grid_cols, return_full_image, tonal_img,
           average_tones, stats, pc3>>
vars1 == <<source_shape, max_size, target_size, img_resized, raised1, pc1>>

vars4 == <<height, width, letter, font_size_ratio, font_size, max_width,
           max_height, text_w, text_h, glyph_box, raised4, pc4>>

vars2 == <<image, percentage, sigma, content_bias, noise_scale_factor,
           extreme_downweight, num_points, energy, stipple_pattern, samples,
           raised2, pc2>>

vars == <<vars5, vars3, vars1, vars4, vars2>>

None == "None"

\* The parts of the state a specification does not exercise stay as they are
\* here.
Off5 ==
    /\ stipple_img = None /\ mask_img = None /\ threshold = 0
    /\ masked = None /\ remasked = None /\ raised = "" /\ pc5 = "off"
Off3 ==
    /\ gray_img = None /\ grid_rows = 0 /\ grid_cols = 0
    /\ return_full_image = FALSE /\ tonal_img = None
    /\ average_tones = None /\ stats = None /\ pc3 = "off"
Off1 ==
    /\ source_shape = None /\ max_size = 0 /\ target_size = None
    /\ img_resized = None /\ raised1 = "" /\ pc1 = "off"
\* no glyph drawn (yet)
NoBox == [left |-> -1, top |-> -1, right |-> -1, bottom |-> -1]

Off4 ==
    /\ height = 0 /\ width = 0 /\ letter = "" /\ font_size_ratio = 0
    /\ font_size = 0 /\ max_width = 0 /\ max_height = 0
    /\ text_w = 0 /\ text_h = 0 /\ glyph_box = NoBox
    /\ raised4 = "" /\ pc4 = "off"
Off2 ==
    /\ image = None /\ percentage = 0 /\ sigma = 0 /\ content_bias = 0
    /\ noise_scale_factor = 0 /\ extreme_downweight = 0 /\ num_points = 0
    /\ energy = None /\ stipple_pattern = None /\ samples = <<>>
    /\ raised2 = "" /\ pc2 = "off"

----------------------------------------------------------------------------
(* Bounds of the model *)

\* the largest number of cells of an array handed to the masking step
MaxCells == 2

\* the largest height and width of an image handed to the tonal analyzer
MaxSide == 2

\* the largest height, width and max_size of the image source
MaxDim == 5

\* the largest height and width of the canvas of the block letter
MaxCanvas == 4

\* the largest width and height a font reports for the letter
MaxText == 5

\* the largest number of pixels of an image handed to the stippler
MaxPixels == 3

----------------------------------------------------------------------------
(* Fixed-point tones *)

\* the tone 1.0
One == 4

Min(a, b) == IF a <= b THEN a ELSE b
Max(a, b) == IF a >= b THEN a ELSE b

\* float32 holds the even integers only
IsFloat32(v) == v % 2 = 0

\* Conversion of a float64 to float32: round to nearest, ties to the value
\* with the even mantissa (here: the multiple of 4).
ToFloat32(v) ==
    IF IsFloat32(v) THEN v
    ELSE IF (v + 1) % 4 = 0 THEN v + 1 ELSE v - 1

----------------------------------------------------------------------------
(* Arrays: a shape <<h, w>>, a dtype and the cells in row-major order.     *)
(* `is_input` says whether the array is the very object the caller passed  *)
(* (np.asarray returns its argument when no conversion is needed).         *)

Shapes == { s \in (1..MaxCells) \X (1..MaxCells) : s[1] * s[2] <= MaxCells }

Size(shape) == shape[1] * shape[2]

NoArray == [shape |-> <<0, 0>>, dtype |-> "none", data |-> <<>>]

Grids(shape, values) == [1..Size(shape) -> values]

\* The arrays a caller can hold: float64 arrays of any of `values`, float32
\* arrays of the float32 ones among them.
InputArrays(values) ==
    LET v32 == { v \in values : IsFloat32(v) } IN
    UNION { { [shape |-> s, dtype |-> "float64", data |-> d] : d \in Grids(s, values) }
            \cup
            { [shape |-> s, dtype |-> "float32", data |-> d] : d \in Grids(s, v32) }
          : s \in Shapes }


----------------------------------------------------------------------------
(* step5_create_masked.py : create_masked_stipple                          *)

ShapeMessage == "stipple_img and mask_img must have the same shape"
ThresholdMessage == "threshold must be within [0, 1]"

\* np.asarray(a, dtype=np.float32): the argument itself when it already is a
\* float32 array, else a converted array of its own.
asarray_float32(a) ==
    [shape |-> a.shape, dtype |-> "float32",
     data |-> [i \in DOMAIN a.data |-> ToFloat32(a.data[i])],
     is_input |-> a.dtype = "float32"]

\* a.copy(), with the bug of aliasing instead of copying
copy_alias(a) == a

\* a.copy()
copy(a) == [a EXCEPT !.is_input = FALSE]

\* a <= scalar in place of a < scalar
less_or_equal(a, scalar) ==
    [i \in DOMAIN a.data |-> a.data[i] <= ToFloat32(scalar)]

\* a < scalar, elementwise; the Python float is cast to the array's float32
less(a, scalar) ==
    [i \in DOMAIN a.data |-> a.data[i] < ToFloat32(scalar)]

\* a[where] = 0.0 (a black dot) in place of a[where] = value (white)
setitem_zero(a, where, value) ==
    [a EXCEPT !.data = [i \in DOMAIN a.data |->
                          IF where[i] THEN 0 ELSE a.data[i]]]

\* a[where] = 1.0 - a[where] in place of a[where] = value
setitem_invert(a, where, value) ==
    [a EXCEPT !.data = [i \in DOMAIN a.data |->
                          IF where[i] THEN value - a.data[i] ELSE a.data[i]]]

\* a[where] = value, in place
setitem(a, where, value) ==
    [a EXCEPT !.data = [i \in DOMAIN a.data |->
                          IF where[i] THEN value ELSE a.data[i]]]

\* np.clip without the upper bound
clip_low_only(a, lo, hi) ==
    [shape |-> a.shape, dtype |-> a.dtype,
     data |-> [i \in DOMAIN a.data |-> Max(a.data[i], lo)]]

\* np.clip(a, lo, hi): a new array
clip(a, lo, hi) ==
    [shape |-> a.shape, dtype |-> a.dtype,
     data |-> [i \in DOMAIN a.data |-> Min(Max(a.data[i], lo), hi)]]

\* The outcome of a call that raises: no value, the argument as it was.
Raise(message, s_img) ==
    [raised |-> message, ret |-> NoArray, stipple_img |-> s_img]

\* create_masked_stipple with the two validations in the other order
create_masked_stipple_threshold_first(s_img, m_img, t) ==
    LET stipple == asarray_float32(s_img)
        mask    == asarray_float32(m_img)
    IN  IF ~(0 <= t /\ t <= One) THEN Raise(ThresholdMessage, s_img)
        ELSE IF stipple.shape # mask.shape THEN Raise(ShapeMessage, s_img)
        ELSE LET written == setitem(copy(stipple), less(mask, t), One)
             IN  [raised |-> "", ret |-> clip(written, 0, One),
                  stipple_img |-> s_img]

\* The whole function: what it raises, what it returns, and the caller's
\* pattern array after the call (the in-place write lands in it when the
\* written array is the caller's own object).
create_masked_stipple(s_img, m_img, t) ==
    LET stipple == asarray_float32(s_img)
        mask    == asarray_float32(m_img)
    IN  IF stipple.shape # mask.shape THEN Raise(ShapeMessage, s_img)
        ELSE IF ~(0 <= t /\ t <= One) THEN Raise(ThresholdMessage, s_img)
        ELSE LET written == setitem(copy(stipple), less(mask, t), One)
             IN  [raised |-> "", ret |-> clip(written, 0, One),
                  stipple_img |-> IF written.is_input
                                  THEN [s_img EXCEPT !.data = written.data]
                                  ELSE s_img]

\* The tones the callers of the model pass.
PatternValues == {-2, 0, 1, One, 6}
MaskValues == {0, 1, 2, One}
Thresholds == {-1, 0, 1, 2, One, 5}

InitMask ==
    /\ stipple_img \in InputArrays(PatternValues)
    /\ mask_img \in InputArrays(MaskValues)
    /\ threshold \in Thresholds
    /\ masked = NoArray
    /\ remasked = NoArray
    /\ raised = ""
    /\ pc5 = "ready"
    /\ Off3 /\ Off1 /\ Off4 /\ Off2

\* masked = create_masked_stipple(stipple_img, mask_img, threshold)
Call ==
    /\ pc5 = "ready"
    /\ LET out == create_masked_stipple(stipple_img, mask_img, threshold) IN
       /\ raised' = out.raised
       /\ masked' = out.ret
       /\ stipple_img' = out.stipple_img
       /\ pc5' = IF out.raised = "" THEN "returned" ELSE "raised"
    /\ UNCHANGED <<mask_img, threshold, remasked, vars3, vars1, vars4, vars2>>

\* remasked = create_masked_stipple(masked, mask_img, threshold)
CallAgain ==
    /\ pc5 = "returned"
    /\ LET out == create_masked_stipple(masked, mask_img, threshold) IN
       /\ raised' = out.raised
       /\ remasked' = out.ret
       /\ masked' = out.stipple_img
       /\ pc5' = "again"
    /\ UNCHANGED <<stipple_img, mask_img, threshold, vars3, vars1, vars4, vars2>>

NextMask == Call \/ CallAgain

SpecMask == InitMask /\ [][NextMask]_vars

----------------------------------------------------------------------------
(* Claims about create_masked_stipple, under SpecMask                      *)

Called == pc5 # "ready"
SameShape == stipple_img.shape = mask_img.shape
ValidThreshold == 0 <= threshold /\ threshold <= One
Cells == DOMAIN stipple_img.data
Clamp(v) == Min(Max(v, 0), One)
IsStipplePattern(a) == \A i \in DOMAIN a.data : a.data[i] \in {0, One}
MaskIs(v) == \A i \in DOMAIN mask_img.data : mask_img.data[i] = v

\* C1 as stated: for a mask of the same shape and a threshold in [0,1] the
\* call returns a grid whose cells are 1.0 where mask < threshold and the
\* pattern's original value where mask >= threshold.
C1_AsStated ==
    (Called /\ SameShape /\ ValidThreshold) =>
        /\ masked # NoArray
        /\ \A i \in Cells :
             /\ mask_img.data[i] < threshold => masked.data[i] = One
             /\ mask_img.data[i] >= threshold =>
                    masked.data[i] = stipple_img.data[i]

\* C1 amended: for a mask of the same shape and a threshold in [0,1] the call
\* returns a grid whose cells are 1.0 where the mask is below the threshold,
\* both taken as float32, and everywhere else the pattern's float32 value
\* clamped to [0,1].
C1_MaskedCells ==
    (Called /\ SameShape /\ ValidThreshold) =>
        /\ masked # NoArray
        /\ masked.shape = stipple_img.shape
        /\ \A i \in Cells :
             masked.data[i] =
                IF ToFloat32(mask_img.data[i]) < ToFloat32(threshold)
                THEN One
                ELSE Clamp(ToFloat32(stipple_img.data[i]))

\* C1 witness: a call returned with one cell whitened by the mask and an
\* unmasked cell whose value lay above 1.0.
C1_Witness ==
    /\ pc5 = "returned"
    /\ \E i \in Cells : /\ mask_img.data[i] < threshold
                        /\ stipple_img.data[i] = 0
                        /\ masked.data[i] = One
    /\ \E j \in Cells : /\ mask_img.data[j] >= threshold
                        /\ stipple_img.data[j] > One

\* C2: masking the result of a successful call again, with the same mask and
\* threshold, succeeds and returns exactly the first result.
C2_Idempotent ==
    pc5 = "again" => (raised = "" /\ remasked = masked)

\* C2 witness: the second call returned after a first call that whitened a dot.
C2_Witness ==
    /\ pc5 = "again"
    /\ \E i \in Cells : stipple_img.data[i] = 0 /\ masked.data[i] = One
    /\ \E j \in Cells : masked.data[j] = 0

\* C3 as stated: with a mask that is 1.0 everywhere and any threshold <= 1.0
\* the call returns the stipple pattern unchanged.
C3_AsStated ==
    (Called /\ SameShape /\ IsStipplePattern(stipple_img) /\ MaskIs(One)
        /\ threshold <= One) =>
        (masked # NoArray /\ masked.data = stipple_img.data)

\* C3 amended: with a mask that is 1.0 everywhere and any threshold in [0,1]
\* the call returns the stipple pattern unchanged.
C3_WhiteMaskKeeps ==
    (Called /\ SameShape /\ IsStipplePattern(stipple_img) /\ MaskIs(One)
        /\ ValidThreshold) =>
        (masked # NoArray /\ masked.data = stipple_img.data)

\* C3 witness: a pattern with a dot went through an all-1.0 mask at
\* threshold 1.0.
C3_Witness ==
    /\ pc5 = "returned"
    /\ MaskIs(One)
    /\ threshold = One
    /\ \E i \in Cells : stipple_img.data[i] = 0
    /\ IsStipplePattern(stipple_img)

\* C4 as stated: with a mask that is 0.0 everywhere and any threshold > 0.0
\* the call returns a pattern that is 1.0 in every cell.
C4_AsStated ==
    (Called /\ SameShape /\ IsStipplePattern(stipple_img) /\ MaskIs(0)
        /\ threshold > 0) =>
        (masked # NoArray /\ \A i \in Cells : masked.data[i] = One)

\* C4 amended: with a mask that is 0.0 everywhere and any threshold in (0,1]
\* that is still above 0.0 as a float32, the call returns a pattern that is
\* 1.0 in every cell.
C4_BlackMaskWhitens ==
    (Called /\ SameShape /\ MaskIs(0)
        /\ ValidThreshold /\ ToFloat32(threshold) > 0) =>
        (masked # NoArray /\ \A i \in Cells : masked.data[i] = One)

\* C4 witness: a pattern with a dot went through an all-0.0 mask at a
\* threshold in (0,1].
C4_Witness ==
    /\ pc5 = "returned"
    /\ MaskIs(0)
    /\ threshold = 2
    /\ \E i \in Cells : stipple_img.data[i] = 0 /\ masked.data[i] = One

\* C5: no call, returning or raising, changes the arrays it was given: the
\* caller's pattern and mask, and on the second call the first result.
C5_InputsUntouched ==
    [][ /\ stipple_img' = stipple_img
        /\ mask_img' = mask_img
        /\ (pc5 = "returned" => masked' = masked) ]_vars

\* C5 witness: a call that was handed a float32 pattern (which np.asarray
\* passes through as the same object) returned a grid that differs from it.
C5_Witness ==
    /\ pc5 = "returned"
    /\ stipple_img.dtype = "float32"
    /\ masked.data # stipple_img.data

\* C6: when the shapes differ the call raises the shape error, whatever the
\* threshold, and returns no pattern.
C6_ShapeErrorFirst ==
    (Called /\ ~SameShape) =>
        /\ pc5 = "raised"
        /\ raised = ShapeMessage
        /\ masked = NoArray

\* C6 witness: a call with both a shape mismatch and a threshold outside
\* [0,1] has raised.
C6_Witness ==
    /\ pc5 = "raised"
    /\ ~SameShape
    /\ ~ValidThreshold

----------------------------------------------------------------------------
(* step3_create_tonal.py : create_tonal                                    *)
(* Averages are exact fractions <<numerator, denominator>> in lowest terms. *)

RECURSIVE GCD(_, _)
GCD(a, b) == IF b = 0 THEN a ELSE GCD(b, a % b)

Rat(n, d) == LET g == GCD(IF n < 0 THEN -n ELSE n, d) IN <<n \div g, d \div g>>

RatLeq(a, b) == a[1] * b[2] <= b[1] * a[2]

RECURSIVE SumOver(_, _)
SumOver(f, S) ==
    IF S = {} THEN 0
    ELSE LET e == CHOOSE e \in S : TRUE IN f[e] + SumOver(f, S \ {e})

RECURSIVE ProductOver(_, _)
ProductOver(f, S) ==
    IF S = {} THEN 1
    ELSE LET e == CHOOSE e \in S : TRUE IN f[e] * ProductOver(f, S \ {e})

\* gray_img[y, x], rows and columns counted from 0
Pixel(img, y, x) == img.data[y * img.shape[2] + x + 1]

\* The pixels of gray_img[y_start:y_end, x_start:x_end]
Section(y_start, y_end, x_start, x_end) ==
    (y_start .. y_end - 1) \X (x_start .. x_end - 1)

\* The bounds of grid cell (i, j): the last row and column of cells take
\* what the integer division leaves over.
CellBounds(h, w, rows, cols, i, j) ==
    LET section_h == h \div rows
        section_w == w \div cols
    IN  [y_start |-> i * section_h,
         y_end   |-> IF i < rows - 1 THEN (i + 1) * section_h ELSE h,
         x_start |-> j * section_w,
         x_end   |-> IF j < cols - 1 THEN (j + 1) * section_w ELSE w]

CellPixels(h, w, rows, cols, i, j) ==
    LET b == CellBounds(h, w, rows, cols, i, j)
    IN  Section(b.y_start, b.y_end, b.x_start, b.x_end)

\* np.mean(section)
mean_section(img, pixels) ==
    Rat(SumOver([p \in pixels |-> Pixel(img, p[1], p[2])], pixels),
        Cardinality(pixels))

GridCells(rows, cols) == (0 .. rows - 1) \X (0 .. cols - 1)

\* The loop of lines 60-70: the average tone of every grid cell.
compute_average_tones(img, rows, cols) ==
    [c \in GridCells(rows, cols) |->
        mean_section(img, CellPixels(img.shape[1], img.shape[2],
                                     rows, cols, c[1], c[2]))]

\* np.mean(average_tones)
mean_of(avg) ==
    LET cells == DOMAIN avg
        den   == ProductOver([c \in cells |-> avg[c][2]], cells)
        num   == SumOver([c \in cells |-> avg[c][1] * (den \div avg[c][2])], cells)
    IN  Rat(num, den * Cardinality(cells))

\* np.min(average_tones), np.max(average_tones)
min_of(avg) ==
    CHOOSE a \in {avg[c] : c \in DOMAIN avg} :
        \A c \in DOMAIN avg : RatLeq(a, avg[c])
max_of(avg) ==
    CHOOSE a \in {avg[c] : c \in DOMAIN avg} :
        \A c \in DOMAIN avg : RatLeq(avg[c], a)

\* The stats dictionary (the standard deviation, a square root, is left out:
\* nothing below reads it).
compute_stats(avg) ==
    [mean |-> mean_of(avg), min |-> min_of(avg), max |-> max_of(avg),
     section_coords |-> avg]

\* The full-size image of lines 82-90: every pixel holds its cell's average.
expand(img, rows, cols, avg) ==
    [p \in Section(0, img.shape[1], 0, img.shape[2]) |->
        LET c == CHOOSE c \in GridCells(rows, cols) :
                    p \in CellPixels(img.shape[1], img.shape[2],
                                     rows, cols, c[1], c[2])
        IN  avg[c]]

TonalShapes == (1 .. MaxSide) \X (1 .. MaxSide)
TonalValues == {0, 2, One}

\* The analyzer is handed a float32 image with tones in [0,1] and a grid no
\* finer than the image (a finer grid has empty sections).
InitTonal ==
    /\ gray_img \in UNION { { [shape |-> sh, dtype |-> "float32", data |-> d] :
                              d \in Grids(sh, TonalValues) } : sh \in TonalShapes }
    /\ grid_rows \in 1 .. gray_img.shape[1]
    /\ grid_cols \in 1 .. gray_img.shape[2]
    /\ return_full_image \in BOOLEAN
    /\ tonal_img = None /\ average_tones = None /\ stats = None
    /\ pc3 = "ready"
    /\ Off5 /\ Off1 /\ Off4 /\ Off2

\* tonal_img, average_tones, stats = create_tonal(gray_img, grid_rows,
\*                                                grid_cols, return_full_image)
create_tonal ==
    /\ pc3 = "ready"
    /\ LET avg == compute_average_tones(gray_img, grid_rows, grid_cols) IN
       /\ average_tones' = avg
       /\ stats' = compute_stats(avg)
       /\ tonal_img' = IF return_full_image
                       THEN expand(gray_img, grid_rows, grid_cols, avg)
                       ELSE avg
    /\ pc3' = "done"
    /\ UNCHANGED <<gray_img, grid_rows, grid_cols, return_full_image,
                   vars5, vars1, vars4, vars2>>

NextTonal == create_tonal

SpecTonal == InitTonal /\ [][NextTonal]_vars

(* Claims about create_tonal, under SpecTonal *)

PixelTones == { gray_img.data[k] : k \in DOMAIN gray_img.data }
PixelMin == CHOOSE v \in PixelTones : \A u \in PixelTones : v <= u
PixelMax == CHOOSE v \in PixelTones : \A u \in PixelTones : v >= u

\* C8 as stated: stats['min'] and stats['max'] are the minimum and the
\* maximum tone over all pixels of the image.
C8_AsStated ==
    pc3 = "done" =>
        (stats.min = Rat(PixelMin, 1) /\ stats.max = Rat(PixelMax, 1))

----------------------------------------------------------------------------
(* step1_prepare_image.py : prepare_image                                  *)
(* Only the shape of the image matters below; shapes are <<height, width>> *)
(* as NumPy gives them, sizes are <<width, height>> as Pillow takes them.  *)

ResizeMessage == "height and width must be > 0"

\* int(dim * scale) with scale = max_size / longest: the product truncated
int_scaled(dim, size, longest) == (dim * size) \div longest

\* lines 57-58: new_size for an image that exceeds max_size
fit_within(shape, size) ==
    LET longest == Max(shape[1], shape[2])
    IN  <<int_scaled(shape[2], size, longest), int_scaled(shape[1], size, longest)>>

\* original_img.resize(new_size, LANCZOS) followed by np.array: an array of
\* shape (new_size[1], new_size[0]).  For a size with a zero in it Pillow
\* either refuses (ValueError) or hands back an empty image, depending on
\* its version: both outcomes are kept.
resize_outcomes(new_size) ==
    IF new_size[1] >= 1 /\ new_size[2] >= 1
    THEN { [raised |-> "", shape |-> <<new_size[2], new_size[1]>>] }
    ELSE { [raised |-> ResizeMessage, shape |-> None],
           [raised |-> "", shape |-> <<new_size[2], new_size[1]>>] }

\* lines 47-66: the three branches of the resize step
prepare_outcomes(shape, size, target) ==
    IF target # None THEN resize_outcomes(target)
    ELSE IF shape[1] > size \/ shape[2] > size
         THEN resize_outcomes(fit_within(shape, size))
         ELSE { [raised |-> "", shape |-> shape] }

TargetSizes == {None} \cup ((1 .. 2) \X (1 .. 2))

InitPrepare ==
    /\ source_shape \in (1 .. MaxDim) \X (1 .. MaxDim)
    /\ max_size \in 1 .. MaxDim
    /\ target_size \in TargetSizes
    /\ img_resized = None
    /\ raised1 = ""
    /\ pc1 = "ready"
    /\ Off5 /\ Off3 /\ Off4 /\ Off2

\* img_resized = prepare_image(path, max_size, target_size)
prepare_image ==
    /\ pc1 = "ready"
    /\ \E out \in prepare_outcomes(source_shape, max_size, target_size) :
        /\ raised1' = out.raised
        /\ img_resized' = out.shape
        /\ pc1' = IF out.raised = "" THEN "returned" ELSE "raised"
    /\ UNCHANGED <<source_shape, max_size, target_size, vars5, vars3, vars4, vars2>>

NextPrepare == prepare_image

SpecPrepare == InitPrepare /\ [][NextPrepare]_vars

(* Claims about prepare_image, under SpecPrepare *)

Exceeds == source_shape[1] > max_size \/ source_shape[2] > max_size

\* C9 as stated: without a target size the call returns an image whose
\* height and width are each at least 1 and at most max_size when the source
\* exceeds max_size in some dimension, and the source's own shape when it
\* does not.
C9_AsStated ==
    (pc1 # "ready" /\ target_size = None) =>
        /\ pc1 = "returned"
        /\ Exceeds => /\ 1 <= img_resized[1] /\ img_resized[1] <= max_size
                      /\ 1 <= img_resized[2] /\ img_resized[2] <= max_size
        /\ ~Exceeds => img_resized = source_shape

----------------------------------------------------------------------------
(* step4_create_block_letter.py : create_block_letter_s                    *)
(* font_size_ratio is counted in tenths.  What a font reports for the      *)
(* letter (draw.textbbox) belongs to Pillow and to the font file found, or *)
(* to the fixed-size default font when none is: any size may come back.    *)

Tenths == 10

SizeMessage == "height and width must be positive integers"
LetterMessage == "letter must be a non-empty string"
RatioMessage == "font_size_ratio must be between 0.0 and 1.0"

\* max(1, int(dim * font_size_ratio))
scaled_to_ratio(dim, ratio) == Max(1, (dim * ratio) \div Tenths)

\* max(1, round(font_size * 0.9)): rounding in place of truncating
shrunk_rounded(size) == Max(1, (size * 9 + 5) \div 10)

\* max(1, int(font_size * 0.9))
shrunk(size) == Max(1, (size * 9) \div 10)

\* the loop condition with `and` in place of `or`
must_shrink_both(tw, th, mw, mh, size) == (tw > mw /\ th > mh) /\ size > 1

\* the loop condition of line 118
must_shrink(tw, th, mw, mh, size) == (tw > mw \/ th > mh) /\ size > 1

\* the widths and heights draw.textbbox may report
TextSizes == 0 .. MaxText

\* the first validation that fails, "" when none does (lines 98-103)
validation_error(h, w, l, ratio) ==
    IF h <= 0 \/ w <= 0 THEN SizeMessage
    ELSE IF l = "" THEN LetterMessage
    ELSE IF ratio <= 0 \/ ratio > Tenths THEN RatioMessage
    ELSE ""

\* the box the glyph's ink takes when drawn at (x, y) of lines 125-127
centred_box(h, w, tw, th) ==
    LET left == (w - tw) \div 2
        top  == (h - th) \div 2
    IN  [left |-> left, top |-> top, right |-> left + tw, bottom |-> top + th]

InitLetter ==
    /\ height \in 0 .. MaxCanvas
    /\ width \in 0 .. MaxCanvas
    /\ letter \in {"", "S"}
    /\ font_size_ratio \in {0, 5, 9, Tenths, 11}
    /\ font_size = 0 /\ max_width = 0 /\ max_height = 0
    /\ text_w = 0 /\ text_h = 0 /\ glyph_box = NoBox
    /\ raised4 = ""
    /\ pc4 = "ready"
    /\ Off5 /\ Off3 /\ Off1 /\ Off2

\* lines 98-117: validation, the canvas, the first font and its measurement
letter_begin ==
    /\ pc4 = "ready"
    /\ LET err == validation_error(height, width, letter, font_size_ratio) IN
       IF err # ""
       THEN /\ raised4' = err
            /\ pc4' = "raised"
            /\ UNCHANGED <<font_size, max_width, max_height, text_w, text_h>>
       ELSE /\ font_size' = scaled_to_ratio(Min(height, width), font_size_ratio)
            /\ max_width' = scaled_to_ratio(width, font_size_ratio)
            /\ max_height' = scaled_to_ratio(height, font_size_ratio)
            /\ text_w' \in TextSizes
            /\ text_h' \in TextSizes
            /\ pc4' = "loop"
            /\ UNCHANGED raised4
    /\ UNCHANGED <<height, width, letter, font_size_ratio, glyph_box,
                   vars5, vars3, vars1, vars2>>

\* lines 118-122: one turn of the loop
letter_shrink ==
    /\ pc4 = "loop"
    /\ must_shrink(text_w, text_h, max_width, max_height, font_size)
    /\ font_size' = shrunk(font_size)
    /\ text_w' \in TextSizes
    /\ text_h' \in TextSizes
    /\ UNCHANGED <<height, width, letter, font_size_ratio, max_width,
                   max_height, glyph_box, raised4, pc4, vars5, vars3, vars1, vars2>>

\* lines 124-130: the loop is left and the letter is drawn
letter_draw ==
    /\ pc4 = "loop"
    /\ ~must_shrink(text_w, text_h, max_width, max_height, font_size)
    /\ glyph_box' = centred_box(height, width, text_w, text_h)
    /\ pc4' = "drawn"
    /\ UNCHANGED <<height, width, letter, font_size_ratio, font_size,
                   max_width, max_height, text_w, text_h, raised4,
                   vars5, vars3, vars1, vars2>>

NextLetter == letter_begin \/ letter_shrink \/ letter_draw

SpecLetter == InitLetter /\ [][NextLetter]_vars

\* The function runs in one thread, statement after statement: a call that
\* can take its next step takes it.
SpecLetterFair == SpecLetter /\ WF_vars(NextLetter)

(* Claims about create_block_letter_s, under SpecLetter *)

Fits == text_w <= max_width /\ text_h <= max_height
InsideCanvas ==
    /\ 0 <= glyph_box.left /\ glyph_box.right <= width
    /\ 0 <= glyph_box.top /\ glyph_box.bottom <= height

C11_LoopTerminates ==
    /\ [][ (pc4 = "loop" /\ pc4' = "loop") =>
               (2 <= font_size /\ font_size' < font_size) ]_vars
    /\ [](pc4 \in {"loop", "drawn"} => font_size >= 1)
    /\ [][ (pc4 = "loop" /\ (Fits \/ font_size = 1)) => pc4' = "drawn" ]_vars
    /\ <>(pc4 \in {"drawn", "raised"})

\* C11 witness: the loop started at a font size of 3 or more, ran down to 1
\* with the font never reporting a size that fits, and was left there.
C11_Witness ==
    /\ pc4 = "drawn"
    /\ scaled_to_ratio(Min(height, width), font_size_ratio) >= 3
    /\ font_size = 1
    /\ ~Fits

----------------------------------------------------------------------------
(* step2_create_stipple.py : create_stipple                                *)
(* create_stipple builds the importance map and hands it, with the image   *)
(* and its own arguments, to the placer.  compute_importance and           *)
(* void_and_cluster live in modules that are not among the sources; they   *)
(* are modelled from sections 4.1 and 4.2 of the specification.            *)
(* percentage is counted in hundredths, tones and weights in units of One, *)
(* energies in units of One * One * One.                                   *)

Hundredths == 100

\* the defaults of create_stipple's signature: percentage 0.08, and the two
\* extreme-tone thresholds 0.2 and 0.8 at the nearest tones of the model,
\* a quarter and three quarters
DefaultPercentage == 8
ExtremeThresholdLow == 1
ExtremeThresholdHigh == 3

ParameterError == "ParameterError"

FullEnergy == One * One * One

\* round(n / d) as Python rounds: to the nearest integer, halves to the even one
Round(n, d) ==
    LET q == n \div d
        r == n % d
    IN  IF 2 * r < d THEN q
        ELSE IF 2 * r > d THEN q + 1
        ELSE IF q % 2 = 0 THEN q ELSE q + 1

\* Section 4.1: weight 1.0 inside the normal tonal band, pulled down to
\* 1 - extreme_downweight for a tone beyond either threshold.
compute_importance(img, downweight, low, high) ==
    [k \in DOMAIN img.data |->
        IF img.data[k] < low \/ img.data[k] > high
        THEN One - downweight ELSE One]

\* the keyword arguments handed on, with percentage left at its default
placer_arguments_default_percentage(img, pct, sig, bias, imp, noise) ==
    [input_img |-> img, percentage |-> DefaultPercentage, sigma |-> sig,
     content_bias |-> bias, importance_img |-> imp,
     noise_scale_factor |-> noise]

\* lines 67-74: the arguments create_stipple hands to void_and_cluster
placer_arguments(img, pct, sig, bias, imp, noise) ==
    [input_img |-> img, percentage |-> pct, sigma |-> sig,
     content_bias |-> bias, importance_img |-> imp,
     noise_scale_factor |-> noise]

\* Section 4.1, errors
importance_error(downweight, low, high) ==
    IF low >= high \/ low < 0 \/ high > One \/ downweight < 0 \/ downweight > One
    THEN ParameterError ELSE ""

\* Section 4.2, errors
placer_error(a) ==
    IF \/ a.percentage <= 0 \/ a.percentage > Hundredths
       \/ a.sigma <= 0
       \/ a.content_bias < 0 \/ a.content_bias > One
       \/ a.noise_scale_factor < 0
    THEN ParameterError ELSE ""

\* Section 4.2: the number of points to place, round(percentage * H * W)
target_count(a) ==
    Round(a.percentage * Size(a.input_img.shape), Hundredths)

\* Section 4.2: the content term, content_bias * (1 - tone) * importance
initial_energy(a) ==
    [k \in DOMAIN a.input_img.data |->
        a.content_bias * (One - a.input_img.data[k]) * a.importance_img[k]]

\* the squared distance between pixels k and m of an image w wide
Distance2(k, m, w) ==
    LET dy == ((k - 1) \div w) - ((m - 1) \div w)
        dx == ((k - 1) % w) - ((m - 1) % w)
    IN  dy * dy + dx * dx

\* Section 4.2: the repulsion kernel, falling off with the squared distance
\* at a rate set by sigma, cut off beyond three sigma
kernel(d2, sig) ==
    IF d2 > 9 * sig * sig THEN 0
    ELSE FullEnergy \div (2 ^ (d2 \div (sig * sig)))

\* Section 4.2: the energy field after a point is placed at pixel k
suppress(field, k, w, sig) ==
    [m \in DOMAIN field |-> field[m] - kernel(Distance2(k, m, w), sig)]

\* Section 4.2: the pixels the global-maximum scan can pick, for some
\* perturbation of at most `noise` per pixel; equal energies go to the
\* first in row-major order.  Section 8: a pixel is placed once.
pickable(field, pattern, noise) ==
    LET free == { k \in DOMAIN field : pattern[k] = One } IN
    { k \in free : \A m \in free :
        \/ field[k] + noise > field[m]
        \/ field[k] + noise = field[m] /\ k <= m }

StippleShapes ==
    { sh \in (1 .. MaxPixels) \X (1 .. MaxPixels) : sh[1] * sh[2] <= MaxPixels }

InitStipple ==
    /\ image \in UNION { { [shape |-> sh, dtype |-> "float32", data |-> d] :
                           d \in Grids(sh, {0, 2, One}) } : sh \in StippleShapes }
    /\ percentage \in {0, DefaultPercentage, 25, 50, 75, Hundredths, 125}
    /\ sigma \in {0, 1, 2}
    /\ content_bias \in {0, One, 5}
    /\ noise_scale_factor \in {-1, 0, 8}
    /\ extreme_downweight \in {2, 5}
    /\ num_points = 0
    /\ energy = None
    /\ stipple_pattern = None
    /\ samples = <<>>
    /\ raised2 = ""
    /\ pc2 = "ready"
    /\ Off5 /\ Off3 /\ Off1 /\ Off4

\* lines 57-74: the importance map, then the placer's validation and set-up
create_stipple_begin ==
    /\ pc2 = "ready"
    /\ LET err1 == importance_error(extreme_downweight, ExtremeThresholdLow,
                                    ExtremeThresholdHigh)
           imp  == compute_importance(image, extreme_downweight,
                                      ExtremeThresholdLow, ExtremeThresholdHigh)
           a    == placer_arguments(image, percentage, sigma, content_bias,
                                    imp, noise_scale_factor)
           err  == IF err1 # "" THEN err1 ELSE placer_error(a)
       IN  IF err # ""
           THEN /\ raised2' = err
                /\ pc2' = "raised"
                /\ UNCHANGED <<num_points, energy, stipple_pattern>>
           ELSE /\ num_points' = target_count(a)
                /\ energy' = initial_energy(a)
                /\ stipple_pattern' = [k \in DOMAIN image.data |-> One]
                /\ pc2' = "placing"
                /\ UNCHANGED raised2
    /\ UNCHANGED <<image, percentage, sigma, content_bias, noise_scale_factor,
                   extreme_downweight, samples, vars5, vars3, vars1, vars4>>

\* Section 4.2: one greedy pick
place_point ==
    /\ pc2 = "placing"
    /\ Len(samples) < num_points
    /\ \E k \in pickable(energy, stipple_pattern, noise_scale_factor) :
        /\ samples' = Append(samples, << (k - 1) \div image.shape[2],
                                         (k - 1) % image.shape[2],
                                         image.data[k] >>)
        /\ stipple_pattern' = [stipple_pattern EXCEPT ![k] = 0]
        /\ energy' = suppress(energy, k, image.shape[2], sigma)
    /\ UNCHANGED <<image, percentage, sigma, content_bias, noise_scale_factor,
                   extreme_downweight, num_points, raised2, pc2,
                   vars5, vars3, vars1, vars4>>

\* line 83: the placer is done and create_stipple returns its result
create_stipple_return ==
    /\ pc2 = "placing"
    /\ Len(samples) = num_points
    /\ pc2' = "returned"
    /\ UNCHANGED <<image, percentage, sigma, content_bias, noise_scale_factor,
                   extreme_downweight, num_points, energy, stipple_pattern,
                   samples, raised2, vars5, vars3, vars1, vars4>>

NextStipple == create_stipple_begin \/ place_point \/ create_stipple_return

SpecStipple == InitStipple /\ [][NextStipple]_vars

(* Claims about create_stipple, under SpecStipple *)

Dots == { k \in DOMAIN stipple_pattern : stipple_pattern[k] = 0 }
ValidPercentage == 0 < percentage /\ percentage <= Hundredths
Wanted == Round(percentage * Size(image.shape), Hundredths)

=============================================================================
